---- MODULE Spec2Model ----
(***************************************************************************)
(* DateInsert4AmazonPhoto: the filename fact extractors, the per-item      *)
(* reconciler (set_shooting_date) and the pass loop, in two generations:   *)
(* the script main.py and the class modules/photo_processor.py.            *)
(*                                                                         *)
(* Text is a tuple of one-character strings.  The Japanese characters of   *)
(* the source are written by code point: u5348 u524D is the AM marker,     *)
(* u5348 u5F8C the PM marker, u6642 "hour", u5206 "minute", u5E74 "year",  *)
(* u6708 "month", u65E5 "day", u7DE8 u96C6 the label of the edit button.   *)
(***************************************************************************)
EXTENDS Integers, Sequences, FiniteSets, TLC

VARIABLES
    inp,        \* SpecExtract: the components the filename under test is built from
    fname,      \* SpecExtract: the filename handed to the extractors
    mainOut,    \* SpecExtract: result of main.extract_date_and_time_from_filename
    ppOut       \* SpecExtract: result of PhotoProcessor.extract_date_and_time_from_filename

extractVars == <<inp, fname, mainOut, ppOut>>

VARIABLES
    r_gen,      \* SpecReconcile: which set_shooting_date runs, "main" or "pp"
    r_file,     \* SpecReconcile: the text of the item's file-info label
    r_rec,      \* SpecReconcile: the item's remote date record, as the page holds it
    r_prev,     \* SpecReconcile: the remote record when the last run started
    r_result,   \* SpecReconcile: what the last run returned
    r_log,      \* SpecReconcile: the clicks, clears and key sends of the last run
    r_faults    \* SpecReconcile: what the driver and the page did to the last run

reconcileVars == <<r_gen, r_file, r_rec, r_prev, r_result, r_log, r_faults>>

VARIABLES
    gen,        \* which program runs: "main" (main.py) or "pp" (PhotoProcessor)
    landing,    \* the URL the browser shows after driver.get: "photos" or "signin"
    names,      \* per photo of the collection, the file name its detail page shows
    hrefs,      \* per photo, whether its link carries an href
    recs,       \* per photo, the remote date record
    recs0,      \* the remote records when the run started
    pc,         \* where the program is
    idx,        \* the index of the link the pass is at
    passes,     \* how many passes have started
    changed,    \* main.py: updated_any; process_photos: not all_processed
    windows,    \* driver.window_handles
    current,    \* the window the driver is switched to, "gone" once it was closed
    quits,      \* how often driver.quit() was called
    exit,       \* "running", or how the process ended: "0", "1", "traceback"
    glitch,     \* whether the driver ever answered other than faithfully
    written,    \* the photos whose dialog was saved in the pass under way
    enumerated, \* whether the collection was ever enumerated
    escaped,    \* whether an exception left a pass uncaught
    transient,  \* whether the driver raised while an item of this pass was handled
    refreshes   \* how often the collection was refreshed (driver.refresh())

loopVars == <<gen, landing, names, hrefs, recs, recs0, pc, idx, passes, changed,
              windows, current, quits, exit, glitch, written, enumerated, escaped,
              transient, refreshes>>

VARIABLES
    w_kind,     \* SpecWait: the waiter under test
    w_started,  \* SpecWait: whether DriverManager holds a started browser
    w_appear,   \* SpecWait: the tick at which the element enters the page
    w_shown,    \* SpecWait: whether the element, once there, is displayed
    w_enabled,  \* SpecWait: whether the element, once there, is enabled
    w_cond,     \* SpecWait: the condition argument: presence, visibility, clickable
    w_timeout,  \* SpecWait: the timeout argument, in seconds
    w_clock,    \* SpecWait: ticks since the waiter was called
    w_tried,    \* SpecWait: the delays of the attempts made so far, in order
    w_error,    \* SpecWait: whether the driver raised something else than a timeout
    w_result    \* SpecWait: "waiting", or what the waiter did: element, None, raise

waitVars == <<w_kind, w_started, w_appear, w_shown, w_enabled, w_cond, w_timeout, w_clock, w_tried,
              w_error, w_result>>

VARIABLES
    fs,         \* SpecFiles: the files of the working directory, by path
    net,        \* SpecFiles: the network requests sent so far
    f_op,       \* SpecFiles: the last call
    f_arg,      \* SpecFiles: its argument
    f_io,       \* SpecFiles: what the file system and the network did to it
    f_ret,      \* SpecFiles: what it returned
    f_prev,     \* SpecFiles: the files when it was called
    f_net0      \* SpecFiles: the request count when it was called

fileVars == <<fs, net, f_op, f_arg, f_io, f_ret, f_prev, f_net0>>

vars == <<inp, fname, mainOut, ppOut, r_gen, r_file, r_rec, r_prev, r_result, r_log, r_faults,
          gen, landing, names, hrefs, recs, recs0, pc, idx, passes, changed,
          windows, current, quits, exit, glitch, written, enumerated, escaped,
          transient, refreshes, waitVars, fileVars>>

----------------------------------------------------------------------------
(* Text primitives                                                         *)

DigitChars == <<"0", "1", "2", "3", "4", "5", "6", "7", "8", "9">>

DigitSet == {DigitChars[k] : k \in 1..Len(DigitChars)}

IsDigit(c) == c \in DigitSet

DigitVal(c) == (CHOOSE k \in 1..Len(DigitChars) : DigitChars[k] = c) - 1

\* Python int(s) for a text of decimal digits
RECURSIVE int(_)
int(s) == IF Len(s) = 0 THEN 0
          ELSE 10 * int(SubSeq(s, 1, Len(s) - 1)) + DigitVal(s[Len(s)])

\* Python str(n) / f"{n}" for n >= 0: decimal digits, no padding
RECURSIVE str(_)
str(n) == IF n < 10 THEN <<DigitChars[n + 1]>>
          ELSE str(n \div 10) \o <<DigitChars[(n % 10) + 1]>>

\* the padding left out
zfill2_none(s) == s

\* Python s.zfill(2)
zfill2(s) == IF Len(s) < 2 THEN <<"0">> \o s ELSE s

\* the value None of a tuple slot, told apart from every text
None == <<"<None>">>

AM_MARK == <<"u5348", "u524D">>
PM_MARK == <<"u5348", "u5F8C">>
HOUR_MARK == <<"u6642">>
MINUTE_MARK == <<"u5206">>

----------------------------------------------------------------------------
(* The structural filename pattern and re.search                           *)

D == "\\d"

\* VRChat_(\d{4})-(\d{2})-(\d{2})_(\d{2})-(\d{2})-(\d{2})
filename_pattern ==
    <<"V", "R", "C", "h", "a", "t", "_", D, D, D, D, "-", D, D, "-", D, D,
      "_", D, D, "-", D, D, "-", D, D>>

\* first and last offset, inside the pattern, of each of its six groups
GroupSpans == << <<8, 11>>, <<13, 14>>, <<16, 17>>, <<19, 20>>, <<22, 23>>, <<25, 26>> >>

\* the match made blind to the case of the prefix letters
MatchAtIgnoreCase(pat, s, i) ==
    /\ i + Len(pat) - 1 <= Len(s)
    /\ \A k \in 1..Len(pat) :
          IF pat[k] = D THEN IsDigit(s[i + k - 1])
          ELSE \/ s[i + k - 1] = pat[k]
               \/ <<pat[k], s[i + k - 1]>> \in {<<"V", "v">>, <<"R", "r">>, <<"C", "c">>}

MatchAt(pat, s, i) ==
    /\ i + Len(pat) - 1 <= Len(s)
    /\ \A k \in 1..Len(pat) :
          IF pat[k] = D THEN IsDigit(s[i + k - 1]) ELSE s[i + k - 1] = pat[k]

\* re.search: the leftmost position where the pattern matches, 0 for no match
re_search(pat, s) ==
    LET hits == {i \in 1..(Len(s) - Len(pat) + 1) : MatchAt(pat, s, i)}
    IN IF hits = {} THEN 0 ELSE CHOOSE i \in hits : \A j \in hits : i <= j

\* match.groups(): the six captured texts of a match at position i
groups(s, i) ==
    [g \in 1..Len(GroupSpans) |->
        SubSeq(s, i + GroupSpans[g][1] - 1, i + GroupSpans[g][2] - 1)]

----------------------------------------------------------------------------
(* The two fact extractors                                                 *)

\* main.py: hour 0 and hour 12 are both displayed as 0
main_time_str(hour_int, minute_int) ==
    IF hour_int = 0 THEN AM_MARK \o <<"0">> \o HOUR_MARK \o str(minute_int) \o MINUTE_MARK
    ELSE IF hour_int < 12
         THEN AM_MARK \o str(hour_int) \o HOUR_MARK \o str(minute_int) \o MINUTE_MARK
    ELSE IF hour_int = 12
         THEN PM_MARK \o <<"0">> \o HOUR_MARK \o str(minute_int) \o MINUTE_MARK
    ELSE PM_MARK \o str(hour_int - 12) \o HOUR_MARK \o str(minute_int) \o MINUTE_MARK

main_extract_date_and_time_from_filename(filename) ==
    LET m == re_search(filename_pattern, filename) IN
    IF m = 0 THEN <<None, None>>
    ELSE LET g == groups(filename, m)
             time_str == main_time_str(int(g[4]), int(g[5]))
             date_str == g[1] \o <<"-">> \o g[2] \o <<"-">> \o g[3]
         IN <<date_str, time_str>>

\* the time text with the minute padded to two digits
pp_time_str_padded(hour_int, minute_int) ==
    LET am_pm == IF hour_int < 12 THEN AM_MARK ELSE PM_MARK
        h == hour_int % 12
        hour_12 == IF h = 0 THEN 12 ELSE h
    IN am_pm \o str(hour_12) \o HOUR_MARK \o zfill2(str(minute_int)) \o MINUTE_MARK

\* photo_processor.py: hour % 12, and 0 is displayed as 12
pp_time_str(hour_int, minute_int) ==
    LET am_pm == IF hour_int < 12 THEN AM_MARK ELSE PM_MARK
        h == hour_int % 12
        hour_12 == IF h = 0 THEN 12 ELSE h
    IN am_pm \o str(hour_12) \o HOUR_MARK \o str(minute_int) \o MINUTE_MARK

pp_extract_date_and_time_from_filename(filename) ==
    LET m == re_search(filename_pattern, filename) IN
    IF m = 0 THEN <<None, None>>
    ELSE LET g == groups(filename, m)
             time_str == pp_time_str(int(g[4]), int(g[5]))
             date_str == g[1] \o <<"-">> \o g[2] \o <<"-">> \o g[3]
         IN <<date_str, time_str>>

----------------------------------------------------------------------------
(* SpecExtract: the extractors applied to a bounded family of filenames    *)

HourTop == 24

MinuteSamples == {0, 5, 30, 59, 75}

two(n) == <<DigitChars[(n \div 10) + 1], DigitChars[(n % 10) + 1]>>

VRCHAT == <<"V", "R", "C", "h", "a", "t", "_">>
PNG == <<".", "p", "n", "g">>
DATE_2024_03_25 == <<"2", "0", "2", "4", "-", "0", "3", "-", "2", "5">>
DATE_1999_12_01 == <<"1", "9", "9", "9", "-", "1", "2", "-", "0", "1">>

\* shapes that contain the pattern, and shapes that do not
MatchingShapes == {"plain", "embedded"}
OtherShapes == {"screenshot", "no_time", "no_seconds", "short_hour", "lowercase", "empty"}

Build(i) ==
    LET hm == two(i.h) \o <<"-">> \o two(i.m)
        full == VRCHAT \o i.date \o <<"_">> \o hm \o <<"-", "0", "0">>
    IN CASE i.shape = "plain" -> full \o PNG
         [] i.shape = "embedded" -> <<"I", "M", "G", "_">> \o full \o <<"_", "1", "0", "8", "0", "p">> \o PNG
         [] i.shape = "screenshot" ->
                <<"S", "c", "r", "e", "e", "n", "s", "h", "o", "t", "_">> \o i.date \o PNG
         [] i.shape = "no_time" -> VRCHAT \o i.date \o PNG
         [] i.shape = "no_seconds" -> VRCHAT \o i.date \o <<"_">> \o hm \o PNG
         [] i.shape = "short_hour" ->
                VRCHAT \o i.date \o <<"_">> \o str(i.h % 10) \o <<"-">> \o two(i.m)
                    \o <<"-", "0", "0">> \o PNG
         [] i.shape = "lowercase" ->
                <<"v", "r", "c", "h", "a", "t", "_">> \o i.date \o <<"_">> \o hm
                    \o <<"-", "0", "0">> \o PNG
         [] OTHER -> << >>

Inputs ==
    [shape : MatchingShapes \cup OtherShapes,
     date : {DATE_2024_03_25, DATE_1999_12_01},
     h : 0..HourTop,
     m : MinuteSamples]

Pending == <<"<pending>">>

----------------------------------------------------------------------------
(* The detail page of one item, as the reconciler sees it                  *)

YEAR_MARK == <<"u5E74">>
MONTH_MARK == <<"u6708">>
DAY_MARK == <<"u65E5">>
WEEKDAY == <<"u6728", "u66DC", "u65E5">>
EDIT_LABEL == <<"u7DE8", "u96C6">>
ADD_LABEL == <<"u65E5", "u4ED8", "u3068", "u6642", "u523B", "u3092", "u8FFD", "u52A0">>
OTHER_LABEL == <<"u5834", "u6240", "u3092", "u8FFD", "u52A0">>

\* the remote date record of an item: absent, or the four saved field texts
Absent == [present |-> FALSE, year |-> << >>, month |-> << >>, day |-> << >>,
           time |-> << >>, locale |-> "ja"]

Stored(date_str, time_str, locale) ==
    [present |-> TRUE, year |-> SubSeq(date_str, 1, 4), month |-> SubSeq(date_str, 6, 7),
     day |-> SubSeq(date_str, 9, 10), time |-> time_str, locale |-> locale]

\* text of '.detail-item.date-info .label', e.g. 2025 u5E74 5 u6708 15 u65E5
date_label_text(rec) ==
    IF rec.locale = "ja"
    THEN rec.year \o YEAR_MARK \o str(int(rec.month)) \o MONTH_MARK
            \o str(int(rec.day)) \o DAY_MARK
    ELSE str(int(rec.month)) \o <<"/">> \o str(int(rec.day)) \o <<"/">> \o rec.year

\* text of '.detail-item.date-info .subs span': weekday, comma, blank, time
time_span_text(rec) == WEEKDAY \o <<",", " ">> \o rec.time

\* the date dialog: closed, or open with the content of its four inputs
NoForm == [open |-> FALSE, year |-> << >>, month |-> << >>, day |-> << >>, time |-> << >>]

\* the dialog the add button opens is empty, the one the edit button opens
\* holds the stored values
AddForm == [open |-> TRUE, year |-> << >>, month |-> << >>, day |-> << >>, time |-> << >>]

EditForm(rec) ==
    [open |-> TRUE, year |-> rec.year, month |-> rec.month, day |-> rec.day, time |-> rec.time]

\* the record after the save button took the dialog's content
SaveForm(rec, form) ==
    [present |-> TRUE, year |-> form.year, month |-> form.month, day |-> form.day,
     time |-> form.time, locale |-> rec.locale]

\* what the driver can do to one run besides answering faithfully
FaultKinds ==
    {"info_timeout", "info_error", "edit_lookup_error", "file_timeout", "file_error",
     "add_other", "open_error", "form_timeout", "input_error_find", "input_error_clear",
     "input_error_type", "blur_error", "save_timeout", "save_click_error", "no_stick"}

MaxFaults == 1

Oracles == {F \in SUBSET FaultKinds : Cardinality(F) <= MaxFaults}

\* inside a pass only the outcome of a run counts: one fault per kind of outcome
\* (the write that does not stick, the save button that never comes, the file
\* label that never comes, the stored date that cannot be read, the click on
\* the info button that raises)
LoopFaultKinds == {"no_stick", "save_timeout", "file_timeout", "edit_lookup_error",
                   "info_error"}

\* the faults that are exceptions of a driver call, not waits that ran out
RaisingKinds ==
    {"info_error", "edit_lookup_error", "file_error", "open_error", "input_error_find",
     "input_error_clear", "input_error_type", "blur_error", "save_click_error"}

LoopOracles == {{}} \cup {{f} : f \in LoopFaultKinds}

Ev(op, el, text) == [op |-> op, el |-> el, text |-> text]

\* what one run of set_shooting_date leaves: the value returned ("True", "False",
\* or "None" when the function falls off its end), the driver calls that acted
\* on the page, and the remote record afterwards
Outcome(result, log, rec) == [result |-> result, log |-> log, rec |-> rec]

\* Python "sub in text"
Contains(text, sub) ==
    \E i \in 1..(Len(text) - Len(sub) + 1) : SubSeq(text, i, i + Len(sub) - 1) = sub

\* Python text.strip(), for blanks
RECURSIVE strip(_)
strip(text) ==
    IF Len(text) = 0 THEN text
    ELSE IF text[1] = " " THEN strip(Tail(text))
    ELSE IF text[Len(text)] = " " THEN strip(SubSeq(text, 1, Len(text) - 1))
    ELSE text

\* date_str.split("-") of a year-month-day text
split_date(date_str) ==
    LET dashes == {i \in 1..Len(date_str) : date_str[i] = "-"}
        d1 == CHOOSE i \in dashes : \A j \in dashes : i <= j
        d2 == CHOOSE i \in dashes \ {d1} : \A j \in dashes \ {d1} : i <= j
    IN <<SubSeq(date_str, 1, d1 - 1), SubSeq(date_str, d1 + 1, d2 - 1),
         SubSeq(date_str, d2 + 1, Len(date_str))>>

----------------------------------------------------------------------------
(* PhotoProcessor: reading the stored date                                 *)

DigitsAt(s, i, n) == i >= 1 /\ i + n - 1 <= Len(s) /\ \A k \in i..(i + n - 1) : IsDigit(s[k])

TextAt(s, i, t) == i >= 1 /\ i + Len(t) - 1 <= Len(s) /\ SubSeq(s, i, i + Len(t) - 1) = t

\* (\d{4}) year-mark (\d{1,2}) month-mark (\d{1,2}) day-mark at position i,
\* with a month of a digits and a day of b digits
DateMatchAt(s, i, a, b) ==
    /\ DigitsAt(s, i, 4)
    /\ TextAt(s, i + 4, YEAR_MARK)
    /\ DigitsAt(s, i + 5, a)
    /\ TextAt(s, i + 5 + a, MONTH_MARK)
    /\ DigitsAt(s, i + 6 + a, b)
    /\ TextAt(s, i + 6 + a + b, DAY_MARK)

\* re.search of the date pattern in the label: None, or <<year, month, day>>
date_search(s) ==
    LET cands == {c \in (1..Len(s)) \X {1, 2} \X {1, 2} : DateMatchAt(s, c[1], c[2], c[3])}
    IN IF cands = {} THEN None
       ELSE LET c == CHOOSE c \in cands : \A e \in cands : c[1] <= e[1]
            IN <<SubSeq(s, c[1], c[1] + 3),
                 SubSeq(s, c[1] + 5, c[1] + 4 + c[2]),
                 SubSeq(s, c[1] + 6 + c[2], c[1] + 5 + c[2] + c[3])>>

\* the weekday left in place
strip_weekday_none(text) == text

\* re.sub(r"^.*?, ", "", text): drop everything up to the first comma-blank
strip_weekday(text) ==
    LET hits == {i \in 1..(Len(text) - 1) : text[i] = "," /\ text[i + 1] = " "}
    IN IF hits = {} THEN text
       ELSE LET i == CHOOSE i \in hits : \A j \in hits : i <= j
            IN SubSeq(text, i + 2, Len(text))

\* text of the date-info edit button, shown while a date is stored
edit_button_text(rec) == EDIT_LABEL

\* PhotoProcessor._is_date_already_set: <<is_set, date_str, time_str>>
pp_is_date_already_set(rec, F) ==
    IF ~rec.present \/ "edit_lookup_error" \in F THEN <<FALSE, None, None>>
    ELSE IF ~Contains(edit_button_text(rec), EDIT_LABEL) THEN <<FALSE, None, None>>
    ELSE LET date_match == date_search(date_label_text(rec))
         IN IF date_match = None THEN <<FALSE, None, None>>
            ELSE <<TRUE,
                   date_match[1] \o <<"-">> \o zfill2(date_match[2]) \o <<"-">>
                       \o zfill2(date_match[3]),
                   strip_weekday(time_span_text(rec))>>

----------------------------------------------------------------------------
(* The dialog under a run's clears and key sends                           *)

ApplyEv(form, e) ==
    IF e.op = "clear" THEN [form EXCEPT ![e.el] = << >>]
    ELSE IF e.op = "send_keys" THEN [form EXCEPT ![e.el] = @ \o e.text]
    ELSE form

RECURSIVE ApplyAll(_, _)
ApplyAll(form, log) ==
    IF Len(log) = 0 THEN form ELSE ApplyAll(ApplyEv(form, Head(log)), Tail(log))

\* the least of a non-empty set of numbers
Least(S) == CHOOSE n \in S : \A k \in S : n <= k

----------------------------------------------------------------------------
(* PhotoProcessor.set_shooting_date                                        *)

\* a reader of the file label that never notices the label is missing
pp_get_filename_blind(file, F) == strip(file)

\* PhotoProcessor._get_filename: the stripped label text, None on a timeout
pp_get_filename(file, F) == IF "file_timeout" \in F THEN None ELSE strip(file)

\* the add button of the page: none while a date is stored, unless the
\* selector hits the button of another editable item
add_button_exists(rec, F) == ~rec.present \/ "add_other" \in F

add_button_text(F) == IF "add_other" \in F THEN OTHER_LABEL ELSE ADD_LABEL

\* PhotoProcessor._open_date_form: [ok, log, form]
pp_open_date_form(rec, F) ==
    IF ~add_button_exists(rec, F) THEN [ok |-> FALSE, log |-> << >>, form |-> NoForm]
    ELSE IF ~Contains(add_button_text(F), ADD_LABEL)
         THEN [ok |-> FALSE, log |-> << >>, form |-> NoForm]
    ELSE IF "open_error" \in F THEN [ok |-> FALSE, log |-> << >>, form |-> NoForm]
    ELSE [ok |-> TRUE, log |-> <<Ev("click", "add", << >>)>>, form |-> AddForm]

\* the first call of the field-fill step: the wait for the year field
FindYear == Ev("find", "year", << >>)

\* the clears, key sends and blur of PhotoProcessor._input_date_time, in order
pp_input_ops(date_str, time_str) ==
    LET p == split_date(date_str)
    IN <<Ev("clear", "year", << >>), Ev("clear", "month", << >>),
         Ev("clear", "day", << >>), Ev("clear", "time", << >>),
         Ev("send_keys", "year", p[1]), Ev("send_keys", "month", p[2]),
         Ev("send_keys", "day", p[3]), Ev("send_keys", "time", time_str),
         Ev("blur", "time", << >>)>>

\* how many of them complete before the driver raises
pp_input_done(F) ==
    Least({9} \cup (IF "input_error_find" \in F THEN {0} ELSE {})
              \cup (IF "input_error_clear" \in F THEN {3} ELSE {})
              \cup (IF "input_error_type" \in F THEN {6} ELSE {})
              \cup (IF "blur_error" \in F THEN {8} ELSE {}))

\* PhotoProcessor._input_date_time: [ok, log, form]
pp_input_date_time(date_str, time_str, form, F) ==
    IF ~form.open \/ "form_timeout" \in F
    THEN [ok |-> FALSE, log |-> <<FindYear>>, form |-> form]
    ELSE LET ops == pp_input_ops(date_str, time_str)
             n == pp_input_done(F)
             done == SubSeq(ops, 1, n)
         IN [ok |-> n = Len(ops), log |-> <<FindYear>> \o done, form |-> ApplyAll(form, done)]

\* a save step that reports success without having clicked the button
pp_save_date_time_blind(rec, form, F) == [ok |-> TRUE, log |-> << >>, rec |-> rec]

\* PhotoProcessor._save_date_time: [ok, log, rec]
pp_save_date_time(rec, form, F) ==
    IF ~form.open \/ "save_timeout" \in F THEN [ok |-> FALSE, log |-> << >>, rec |-> rec]
    ELSE IF "save_click_error" \in F THEN [ok |-> FALSE, log |-> << >>, rec |-> rec]
    ELSE [ok |-> TRUE, log |-> <<Ev("click", "save", << >>)>>,
          rec |-> IF "no_stick" \in F THEN rec ELSE SaveForm(rec, form)]

\* the part of set_shooting_date after the form is open: fill, then save
pp_fill_and_save(log, date_str, time_str, rec, form, F) ==
    LET in == pp_input_date_time(date_str, time_str, form, F)
    IN IF ~in.ok THEN Outcome("False", log \o in.log, rec)
       ELSE LET sv == pp_save_date_time(rec, in.form, F)
            IN Outcome(IF sv.ok THEN "True" ELSE "False", log \o in.log \o sv.log, sv.rec)

pp_set_shooting_date(file, rec, F) ==
    IF "info_error" \in F \/ "info_timeout" \in F THEN Outcome("False", << >>, rec)
    ELSE
    LET log1 == <<Ev("click", "info", << >>)>>
        filename == pp_get_filename(file, F)
    IN
    IF "file_error" \in F THEN Outcome("False", log1, rec)
    ELSE IF filename = None \/ filename = << >> THEN Outcome("False", log1, rec)
    ELSE
    LET fact == pp_extract_date_and_time_from_filename(filename)
        cur == pp_is_date_already_set(rec, F)
    IN
    IF fact[1] = None \/ fact[2] = None THEN Outcome("False", log1, rec)
    ELSE IF cur[1]
         THEN IF cur[2] = fact[1] /\ cur[3] = fact[2] THEN Outcome("False", log1, rec)
              ELSE IF "open_error" \in F THEN Outcome("False", log1, rec)
              ELSE pp_fill_and_save(log1 \o <<Ev("click", "edit", << >>)>>,
                                    fact[1], fact[2], rec, EditForm(rec), F)
    ELSE LET op == pp_open_date_form(rec, F)
         IN IF ~op.ok THEN Outcome("False", log1, rec)
            ELSE pp_fill_and_save(log1 \o op.log, fact[1], fact[2], rec, op.form, F)

----------------------------------------------------------------------------
(* main.set_shooting_date                                                  *)

\* the key sends of main.set_shooting_date, in order
main_input_ops(date_str, time_str) ==
    LET p == split_date(date_str)
    IN <<Ev("send_keys", "year", p[1]), Ev("send_keys", "month", p[2]),
         Ev("send_keys", "day", p[3]), Ev("send_keys", "time", time_str)>>

main_input_done(F) ==
    Least({4} \cup (IF "input_error_find" \in F THEN {1} ELSE {})
              \cup (IF "input_error_type" \in F THEN {2} ELSE {}))

\* the part of main.set_shooting_date after the add button: fill, then save
main_fill_and_save(log0, date_str, time_str, rec, form, F) ==
    LET log == log0 \o <<FindYear>>
    IN
    IF ~form.open \/ "form_timeout" \in F THEN Outcome("False", log, rec)
    ELSE LET ops == main_input_ops(date_str, time_str)
             n == main_input_done(F)
             done == SubSeq(ops, 1, n)
         IN IF n < Len(ops) THEN Outcome("False", log \o done, rec)
            ELSE IF "save_timeout" \in F THEN Outcome("None", log \o done, rec)
            ELSE IF "save_click_error" \in F THEN Outcome("False", log \o done, rec)
            ELSE Outcome("True", log \o done \o <<Ev("click", "save", << >>)>>,
                         IF "no_stick" \in F THEN rec
                         ELSE SaveForm(rec, ApplyAll(form, done)))

main_set_shooting_date(file, rec, F) ==
    IF "info_error" \in F THEN Outcome("False", << >>, rec)
    ELSE
    LET log1 == IF "info_timeout" \in F THEN << >> ELSE <<Ev("click", "info", << >>)>>
    IN
    IF /\ rec.present
       /\ "edit_lookup_error" \notin F
       /\ Contains(edit_button_text(rec), EDIT_LABEL)
    THEN Outcome("False", log1, rec)
    ELSE IF "file_timeout" \in F \/ "file_error" \in F THEN Outcome("False", log1, rec)
    ELSE
    LET fact == main_extract_date_and_time_from_filename(strip(file))
    IN
    IF fact[1] = None \/ fact[2] = None THEN Outcome("False", log1, rec)
    ELSE IF ~add_button_exists(rec, F) \/ "open_error" \in F THEN Outcome("False", log1, rec)
    ELSE IF Contains(add_button_text(F), ADD_LABEL)
         THEN main_fill_and_save(log1 \o <<Ev("click", "add", << >>)>>,
                                 fact[1], fact[2], rec, AddForm, F)
    ELSE main_fill_and_save(log1, fact[1], fact[2], rec, NoForm, F)

----------------------------------------------------------------------------
(* SpecReconcile: set_shooting_date run again and again on one item        *)

OTHER_DATE == DATE_1999_12_01

ReconcileInputs ==
    [shape : {"plain", "screenshot"}, date : {DATE_2024_03_25}, h : 0..HourTop, m : {5}]

\* the records an item with this file name can hold when a run starts
InitRecords(file) ==
    LET facts == {main_extract_date_and_time_from_filename(file),
                  pp_extract_date_and_time_from_filename(file)} \ {<<None, None>>}
    IN {Absent}
       \cup {Stored(f[1], f[2], loc) : f \in facts, loc \in {"ja", "en"}}
       \cup {Stored(OTHER_DATE, main_time_str(9, 5), "ja")}

NotRun == "<not run>"

IdleExtract == inp = << >> /\ fname = << >> /\ mainOut = Pending /\ ppOut = Pending

IdleReconcile ==
    /\ r_gen = "none"
    /\ r_file = << >>
    /\ r_rec = Absent
    /\ r_prev = Absent
    /\ r_result = NotRun
    /\ r_log = << >>
    /\ r_faults = {}

IdleLoop ==
    /\ gen = "none"
    /\ landing = "photos"
    /\ names = << >>
    /\ hrefs = << >>
    /\ recs = << >>
    /\ recs0 = << >>
    /\ pc = "idle"
    /\ idx = 0
    /\ passes = 0
    /\ changed = FALSE
    /\ windows = << >>
    /\ current = "gone"
    /\ quits = 0
    /\ exit = "running"
    /\ glitch = FALSE
    /\ written = << >>
    /\ enumerated = FALSE
    /\ escaped = FALSE
    /\ transient = FALSE
    /\ refreshes = 0

IdleWait ==
    /\ w_kind = "none"
    /\ w_started = FALSE
    /\ w_appear = 0
    /\ w_shown = FALSE
    /\ w_enabled = FALSE
    /\ w_cond = "none"
    /\ w_timeout = 0
    /\ w_clock = 0
    /\ w_tried = << >>
    /\ w_error = FALSE
    /\ w_result = "idle"

IdleFiles ==
    /\ fs = << >>
    /\ net = 0
    /\ f_op = "none"
    /\ f_arg = "none"
    /\ f_io = "none"
    /\ f_ret = "none"
    /\ f_prev = << >>
    /\ f_net0 = 0

InitReconcile ==
    /\ IdleExtract
    /\ IdleLoop
    /\ IdleWait
    /\ IdleFiles
    /\ r_gen \in {"main", "pp"}
    /\ \E i \in ReconcileInputs : r_file = Build(i)
    /\ r_rec \in InitRecords(r_file)
    /\ r_prev = r_rec
    /\ r_result = NotRun
    /\ r_log = << >>
    /\ r_faults = {}

RunMain ==
    /\ r_gen = "main"
    /\ \E F \in Oracles :
       \E o \in {main_set_shooting_date(r_file, r_rec, F)} :
          r_prev' = r_rec /\ r_rec' = o.rec /\ r_result' = o.result /\ r_log' = o.log
          /\ r_faults' = F
    /\ UNCHANGED <<r_gen, r_file>>
    /\ UNCHANGED extractVars
    /\ UNCHANGED loopVars
    /\ UNCHANGED <<waitVars, fileVars>>

RunPP ==
    /\ r_gen = "pp"
    /\ \E F \in Oracles :
       \E o \in {pp_set_shooting_date(r_file, r_rec, F)} :
          r_prev' = r_rec /\ r_rec' = o.rec /\ r_result' = o.result /\ r_log' = o.log
          /\ r_faults' = F
    /\ UNCHANGED <<r_gen, r_file>>
    /\ UNCHANGED extractVars
    /\ UNCHANGED loopVars
    /\ UNCHANGED <<waitVars, fileVars>>

NextReconcile == RunMain \/ RunPP

SpecReconcile == InitReconcile /\ [][NextReconcile]_vars

----------------------------------------------------------------------------
(* SpecExtract                                                             *)

InitExtract ==
    /\ inp \in Inputs
    /\ fname = Build(inp)
    /\ mainOut = Pending
    /\ ppOut = Pending
    /\ IdleReconcile
    /\ IdleLoop
    /\ IdleWait
    /\ IdleFiles

MainExtract ==
    /\ mainOut = Pending
    /\ mainOut' = main_extract_date_and_time_from_filename(fname)
    /\ UNCHANGED <<inp, fname, ppOut>>
    /\ UNCHANGED reconcileVars
    /\ UNCHANGED loopVars
    /\ UNCHANGED <<waitVars, fileVars>>

PPExtract ==
    /\ ppOut = Pending
    /\ ppOut' = pp_extract_date_and_time_from_filename(fname)
    /\ UNCHANGED <<inp, fname, mainOut>>
    /\ UNCHANGED reconcileVars
    /\ UNCHANGED loopVars
    /\ UNCHANGED <<waitVars, fileVars>>

NextExtract == MainExtract \/ PPExtract

SpecExtract == InitExtract /\ [][NextExtract]_vars

----------------------------------------------------------------------------
(* The run: start, sign-in check, passes over the collection, quit         *)

MaxItems == 2

\* config max_iterations, scaled down
MaxIterations == 3

\* main.py's "while True" is cut off one pass beyond max_iterations
PassCap == MaxIterations + 1

FILE_DAY == Build([shape |-> "plain", date |-> DATE_2024_03_25, h |-> 14, m |-> 5])
FILE_MIDNIGHT == Build([shape |-> "plain", date |-> DATE_2024_03_25, h |-> 0, m |-> 30])
FILE_OTHER == Build([shape |-> "screenshot", date |-> DATE_2024_03_25, h |-> 0, m |-> 0])

\* what one photo of the collection can be when the run starts
Scenarios ==
    {[name |-> FILE_DAY, href |-> TRUE, rec |-> Absent],
     [name |-> FILE_DAY, href |-> TRUE,
      rec |-> Stored(DATE_2024_03_25, main_time_str(14, 5), "ja")],
     [name |-> FILE_MIDNIGHT, href |-> TRUE,
      rec |-> Stored(DATE_2024_03_25, main_time_str(0, 30), "ja")],
     [name |-> FILE_OTHER, href |-> TRUE, rec |-> Absent],
     [name |-> FILE_DAY, href |-> FALSE, rec |-> Absent]}

Collections == UNION {[1..n -> Scenarios] : n \in 0..MaxItems}

Init ==
    /\ IdleExtract
    /\ IdleReconcile
    /\ IdleWait
    /\ IdleFiles
    /\ gen \in {"main", "pp"}
    /\ landing \in {"photos", "signin"}
    /\ \E c \in Collections :
          /\ names = [k \in 1..Len(c) |-> c[k].name]
          /\ hrefs = [k \in 1..Len(c) |-> c[k].href]
          /\ recs = [k \in 1..Len(c) |-> c[k].rec]
    /\ recs0 = recs
    /\ pc = "start"
    /\ idx = 0
    /\ passes = 0
    /\ changed = FALSE
    /\ windows = <<0>>
    /\ current = 1
    /\ quits = 0
    /\ exit = "running"
    /\ glitch = FALSE
    /\ written = [k \in 1..Len(names) |-> 0]
    /\ enumerated = FALSE
    /\ escaped = FALSE
    /\ transient = FALSE
    /\ refreshes = 0

RemoveAt(seq, i) == SubSeq(seq, 1, i - 1) \o SubSeq(seq, i + 1, Len(seq))

\* the check that lets every URL through
signin_redirect_never(u) == FALSE

\* "signin" in driver.current_url
signin_redirect(u) == u = "signin"

\* the page the driver is switched to: 0 the collection, k the detail page of
\* photo k, -1 when the window is gone
Page == IF current = 0 THEN -1 ELSE windows[current]

HasSave(log) == \E k \in 1..Len(log) : log[k].op = "click" /\ log[k].el = "save"

\* set_shooting_date on the page the driver is switched to; away from a detail
\* page no element is found and both generations return False
RunOn(g, F) ==
    IF Page \in 1..Len(names)
    THEN IF g = "main" THEN main_set_shooting_date(names[Page], recs[Page], F)
         ELSE pp_set_shooting_date(names[Page], recs[Page], F)
    ELSE Outcome("False", << >>, Absent)

\* the effect of a run on the remote records and on the pass's save count
Reconciled(o) ==
    /\ recs' = IF Page \in 1..Len(names) THEN [recs EXCEPT ![Page] = o.rec] ELSE recs
    /\ written' = IF Page \in 1..Len(names) /\ HasSave(o.log)
                  THEN [written EXCEPT ![Page] = @ + 1] ELSE written

\* what no step of the run changes
Static == <<gen, landing, names, hrefs, recs0, extractVars, reconcileVars, waitVars,
           fileVars>>

----------------------------------------------------------------------------
(* main.py, lines 284-331                                                  *)

\* driver.get(target_url); time.sleep(initial_wait)
M_Navigate ==
    /\ gen = "main" /\ pc = "start"
    /\ pc' = "m_login"
    /\ UNCHANGED <<Static, refreshes, recs, idx, passes, changed, windows, current, quits, exit,
                   glitch, written, enumerated, escaped, transient>>

\* the sign-in check: error_and_exit ends the process with status 1
M_LoginCheck ==
    /\ gen = "main" /\ pc = "m_login"
    /\ IF signin_redirect(landing)
       THEN pc' = "done" /\ exit' = "1"
       ELSE pc' = "m_enum" /\ exit' = exit
    /\ UNCHANGED <<Static, refreshes, recs, idx, passes, changed, windows, current, quits,
                   glitch, written, enumerated, escaped, transient>>

\* top of "while True": find_elements, the empty check, updated_any = False
M_Enumerate ==
    /\ gen = "main" /\ pc = "m_enum"
    /\ passes < PassCap
    /\ passes' = passes + 1
    /\ enumerated' = TRUE
    /\ written' = [k \in 1..Len(names) |-> 0]
    /\ changed' = FALSE
    /\ transient' = FALSE
    /\ IF Len(names) = 0 THEN pc' = "m_quit" /\ idx' = idx
       ELSE pc' = "m_href" /\ idx' = 1
    /\ UNCHANGED <<Static, refreshes, recs, windows, current, quits, exit, glitch, escaped>>

\* an exception nothing catches: the interpreter prints the traceback and ends
M_Traceback ==
    /\ pc' = "done" /\ exit' = "traceback" /\ escaped' = TRUE /\ glitch' = TRUE
    /\ transient' = TRUE

M_Advance ==
    IF idx < Len(names) THEN idx' = idx + 1 /\ pc' = "m_href"
    ELSE idx' = idx /\ pc' = "m_pass_end"

\* link.get_attribute("href"); without an href the link is passed over
M_ItemHref ==
    /\ gen = "main" /\ pc = "m_href"
    /\ \E answer \in {"ok", "stale", "error"} :
          IF answer # "ok" \/ current = 0
          THEN M_Traceback /\ idx' = idx
          ELSE /\ IF hrefs[idx] THEN pc' = "m_open" /\ idx' = idx ELSE M_Advance
               /\ UNCHANGED <<exit, escaped, glitch, transient>>
    /\ UNCHANGED <<Static, refreshes, recs, passes, changed, windows, current, quits,
                   written, enumerated>>

\* window.open(url); switch_to.window(window_handles[1]); sleep
M_Open ==
    /\ gen = "main" /\ pc = "m_open"
    /\ \E answer \in {"ok", "error"} :
          IF answer # "ok" \/ current = 0
          THEN M_Traceback /\ UNCHANGED <<windows, current>>
          ELSE /\ windows' = Append(windows, idx)
               /\ current' = 2
               /\ pc' = "m_run"
               /\ UNCHANGED <<exit, escaped, glitch, transient>>
    /\ UNCHANGED <<Static, refreshes, recs, idx, passes, changed, quits, written, enumerated>>

\* if set_shooting_date(driver): updated_any = True
M_Run ==
    /\ gen = "main" /\ pc = "m_run"
    /\ \E F \in LoopOracles : \E o \in {RunOn("main", F)} :
          /\ Reconciled(o)
          /\ changed' = (changed \/ o.result = "True")
          /\ glitch' = (glitch \/ F # {})
          /\ transient' = (transient \/ F \cap RaisingKinds # {})
    /\ pc' = "m_close"
    /\ UNCHANGED <<Static, refreshes, idx, passes, windows, current, quits, exit, enumerated, escaped>>

\* driver.close(); switch_to.window(window_handles[0])
M_Close ==
    /\ gen = "main" /\ pc = "m_close"
    /\ \E answer \in {"ok", "error"} :
          IF answer # "ok" \/ current = 0
          THEN M_Traceback /\ UNCHANGED <<windows, current, idx>>
          ELSE /\ windows' = RemoveAt(windows, current)
               /\ IF Len(windows') = 0
                  THEN M_Traceback /\ current' = 0 /\ idx' = idx
                  ELSE current' = 1 /\ M_Advance /\ UNCHANGED <<exit, escaped, glitch, transient>>
    /\ UNCHANGED <<Static, refreshes, recs, passes, changed, quits, written, enumerated>>

\* a run that goes on after every pass, whatever it changed
another_pass_always(updated_any) == TRUE

\* whether the run goes on after a pass: "if not updated_any: break"
another_pass(updated_any) == updated_any

\* if not updated_any: break; else driver.refresh() and the sleep
M_PassEnd ==
    /\ gen = "main" /\ pc = "m_pass_end"
    /\ pc' = IF another_pass(changed) THEN "m_enum" ELSE "m_quit"
    /\ refreshes' = IF another_pass(changed) THEN refreshes + 1 ELSE refreshes
    /\ UNCHANGED <<Static, recs, idx, passes, changed, windows, current, quits, exit,
                   glitch, written, enumerated, escaped, transient>>

\* driver.quit() at the end of the script
M_Quit ==
    /\ gen = "main" /\ pc = "m_quit"
    /\ quits' = quits + 1
    /\ windows' = << >> /\ current' = 0
    /\ pc' = "done" /\ exit' = "0"
    /\ UNCHANGED <<Static, refreshes, recs, idx, passes, changed, glitch, written, enumerated, escaped, transient>>

----------------------------------------------------------------------------
(* PhotoProcessor.process_photos, under a pass controller                  *)

\* the controller's start: navigation and the sign-in check; on a redirect the
\* session is released and the process ends with status 1
P_Start ==
    /\ gen = "pp" /\ pc = "start"
    /\ IF landing = "signin"
       THEN /\ pc' = "done" /\ exit' = "1" /\ quits' = quits + 1
            /\ windows' = << >> /\ current' = 0
       ELSE pc' = "p_enum" /\ UNCHANGED <<exit, quits, windows, current>>
    /\ UNCHANGED <<Static, refreshes, recs, idx, passes, changed, glitch, written, enumerated, escaped, transient>>

\* get_photo_links, then the entry of process_photos: an empty list returns
\* False at once, otherwise all_processed = True.  With no window left
\* find_elements raises, which ends the run.
P_Enumerate ==
    /\ gen = "pp" /\ pc = "p_enum"
    /\ IF current = 0
       THEN /\ pc' = "p_crashed"
            /\ UNCHANGED <<passes, enumerated, written, changed, idx, transient>>
       ELSE /\ passes' = passes + 1
            /\ transient' = FALSE
            /\ enumerated' = TRUE
            /\ written' = [k \in 1..Len(names) |-> 0]
            /\ changed' = FALSE
            /\ IF Len(names) = 0 THEN pc' = "p_pass_end" /\ idx' = idx
               ELSE pc' = "p_href" /\ idx' = 1
    /\ UNCHANGED <<Static, refreshes, recs, windows, current, quits, exit, glitch, escaped>>

\* url = link.get_attribute("href"); "continue" without one.  Whatever
\* happens, the finally block comes next.
P_ItemHref ==
    /\ gen = "pp" /\ pc = "p_href"
    /\ \E answer \in {"ok", "stale", "error"} :
          IF answer = "error" \/ current = 0
          THEN /\ pc' = "p_finally_raise" /\ glitch' = TRUE /\ changed' = changed
               /\ transient' = TRUE
          ELSE IF answer = "stale"
          THEN /\ pc' = "p_finally" /\ glitch' = TRUE /\ changed' = TRUE
               /\ transient' = TRUE
          ELSE /\ pc' = IF hrefs[idx] THEN "p_open" ELSE "p_finally"
               /\ UNCHANGED <<glitch, changed, transient>>
    /\ UNCHANGED <<Static, refreshes, recs, idx, passes, windows, current, quits, exit,
                   written, enumerated, escaped>>

\* window.open(url); switch_to.window(window_handles[1]); sleep
P_Open ==
    /\ gen = "pp" /\ pc = "p_open"
    /\ \E answer \in {"ok", "error"} :
          IF answer = "error"
          THEN /\ pc' = "p_finally_raise" /\ glitch' = TRUE /\ transient' = TRUE
               /\ UNCHANGED <<windows, current>>
          ELSE /\ windows' = Append(windows, idx)
               /\ current' = 2
               /\ pc' = "p_run"
               /\ UNCHANGED <<glitch, transient>>
    /\ UNCHANGED <<Static, refreshes, recs, idx, passes, changed, quits, exit, written,
                   enumerated, escaped>>

\* if self.set_shooting_date(): all_processed = False
P_Run ==
    /\ gen = "pp" /\ pc = "p_run"
    /\ \E F \in LoopOracles : \E o \in {RunOn("pp", F)} :
          /\ Reconciled(o)
          /\ changed' = (changed \/ o.result = "True")
          /\ glitch' = (glitch \/ F # {})
          /\ transient' = (transient \/ F \cap RaisingKinds # {})
    /\ pc' = "p_finally"
    /\ UNCHANGED <<Static, refreshes, idx, passes, windows, current, quits, exit, enumerated, escaped>>

\* the finally block: close(), switch_to.window(window_handles[0]).  close()
\* closes the window the driver is switched to, whichever it is; when it or the
\* switch raises, the error is logged and the first window, if any is left, is
\* switched to.  Once the last window is closed the session is over, and
\* reading window_handles in the handler either gives the empty list or raises
P_Finally ==
    /\ gen = "pp" /\ pc \in {"p_finally", "p_finally_raise"}
    /\ IF current # 0
       THEN /\ windows' = RemoveAt(windows, current)
            /\ current' = IF Len(windows') > 0 THEN 1 ELSE 0
       ELSE /\ windows' = windows
            /\ current' = IF Len(windows) > 0 THEN 1 ELSE 0
    /\ \E answer \in (IF Len(windows') = 0 THEN {"empty", "raise"} ELSE {"ok"}) :
          IF pc = "p_finally_raise" \/ answer = "raise"
          THEN pc' = "p_crashed" /\ escaped' = TRUE /\ idx' = idx
          ELSE /\ escaped' = escaped
               /\ IF idx < Len(names) THEN idx' = idx + 1 /\ pc' = "p_href"
                  ELSE idx' = idx /\ pc' = "p_pass_end"
    /\ UNCHANGED <<Static, refreshes, recs, passes, changed, quits, exit, glitch, written, enumerated,
                   transient>>

\* the controller after a pass: stop when process_photos returned False or
\* the pass count reached max_iterations, otherwise refresh and go on
P_PassEnd ==
    /\ gen = "pp" /\ pc = "p_pass_end"
    /\ pc' = IF changed /\ passes < MaxIterations THEN "p_enum" ELSE "p_quit"
    /\ refreshes' = IF changed /\ passes < MaxIterations THEN refreshes + 1 ELSE refreshes
    /\ UNCHANGED <<Static, recs, idx, passes, changed, windows, current, quits, exit,
                   glitch, written, enumerated, escaped, transient>>

\* DriverManager.quit_browser: quit once, then forget the driver
quit_browser(n) == n + 1

\* the controller's end, reached at the fixed point and after an error that
\* left the pass: the session is released, the status tells which
P_Quit ==
    /\ gen = "pp" /\ pc \in {"p_quit", "p_crashed"}
    /\ quits' = quit_browser(quits)
    /\ windows' = << >> /\ current' = 0
    /\ exit' = IF pc = "p_crashed" THEN "1" ELSE "0"
    /\ pc' = "done"
    /\ UNCHANGED <<Static, refreshes, recs, idx, passes, changed, glitch, written, enumerated, escaped, transient>>

Next ==
    \/ M_Navigate \/ M_LoginCheck \/ M_Enumerate \/ M_ItemHref \/ M_Open
    \/ M_Run \/ M_Close \/ M_PassEnd \/ M_Quit
    \/ P_Start \/ P_Enumerate \/ P_ItemHref \/ P_Open \/ P_Run \/ P_Finally
    \/ P_PassEnd \/ P_Quit

Spec == Init /\ [][Next]_vars

----------------------------------------------------------------------------
(* SpecWait: the three readiness waiters.  Time is counted in ticks of one *)
(* poll interval                                                           *)

\* ticks per second: WebDriverWait polls, and _wait_for_element sleeps, 0.5 s
TicksPerSecond == 2

\* the delays of the attempts in the opposite order
ScheduleDescending == <<10, 5, 3, 2, 1>>

\* main.wait_for_element: for delay in [1, 2, 3, 5, 10]
Schedule == <<1, 2, 3, 5, 10>>

\* the timeout arguments: none, a short one and the default of 10 seconds
WaitTimeouts == {0, 1, 10}

\* the latest tick at which the element may enter the page
MaxAppear == 44

\* whether the element satisfies the condition at tick t
Ready(t, cond) ==
    /\ w_appear <= t
    /\ CASE cond = "presence" -> TRUE
         [] cond = "visibility" -> w_shown
         [] OTHER -> w_shown /\ w_enabled

\* WebDriverWait(driver, delay).until(condition) called at tick clock: the
\* element at the first poll that finds it, TimeoutException once delay is over
until(clock, delay, cond) ==
    LET end == clock + delay * TicksPerSecond
        hits == {t \in clock..end : Ready(t, cond)}
    IN IF hits = {} THEN [found |-> FALSE, clock |-> end]
       ELSE [found |-> TRUE, clock |-> Least(hits)]

\* a waiter that lets the timeout through
dm_wait_for_element_raising(started, clock, timeout, cond, err) ==
    [result |-> "raise", clock |-> clock]

\* DriverManager.wait_for_element: [result, clock]
dm_wait_for_element(started, clock, timeout, cond, err) ==
    IF ~started THEN [result |-> "None", clock |-> clock]
    ELSE IF err THEN [result |-> "raise", clock |-> clock]
    ELSE LET u == until(clock, timeout, cond)
         IN [result |-> IF u.found THEN "element" ELSE "None", clock |-> u.clock]

NotWait == <<extractVars, reconcileVars, loopVars, fileVars>>

WaitKinds == {"main", "dm", "pp_dm", "pp_poll"}

InitWait ==
    /\ IdleExtract
    /\ IdleReconcile
    /\ IdleLoop
    /\ IdleFiles
    /\ w_kind \in WaitKinds
    /\ w_started \in (IF w_kind \in {"dm", "pp_dm"} THEN BOOLEAN ELSE {TRUE})
    /\ w_appear \in 0..MaxAppear
    /\ w_shown \in BOOLEAN
    /\ w_enabled \in BOOLEAN
    /\ w_cond \in (IF w_kind = "main" THEN {"presence"} ELSE {"presence", "visibility", "clickable"})
    /\ w_timeout \in (IF w_kind = "main" THEN {0} ELSE WaitTimeouts)
    /\ w_clock = 0
    /\ w_tried = << >>
    /\ w_error = FALSE
    /\ w_result = "waiting"

\* one turn of main.wait_for_element's for loop; "return None" follows the
\* fifth timeout
W_MainAttempt ==
    /\ w_kind = "main" /\ w_result = "waiting"
    /\ Len(w_tried) < Len(Schedule)
    /\ LET delay == Schedule[Len(w_tried) + 1]
           u == until(w_clock, delay, w_cond)
       IN /\ w_tried' = Append(w_tried, delay)
          /\ \E err \in BOOLEAN :
                IF err
                THEN w_result' = "raise" /\ w_error' = TRUE /\ w_clock' = w_clock
                ELSE /\ w_error' = w_error
                     /\ w_clock' = u.clock
                     /\ w_result' = IF u.found THEN "element"
                                    ELSE IF Len(w_tried') = Len(Schedule) THEN "None"
                                    ELSE "waiting"
    /\ UNCHANGED <<w_kind, w_started, w_appear, w_shown, w_enabled, w_cond, w_timeout>>
    /\ UNCHANGED NotWait

\* DriverManager.wait_for_element
W_DMWait ==
    /\ w_kind = "dm" /\ w_result = "waiting"
    /\ \E err \in BOOLEAN :
       \E o \in {dm_wait_for_element(w_started, w_clock, w_timeout, w_cond, err)} :
          /\ w_result' = o.result
          /\ w_clock' = o.clock
          /\ w_error' = (w_started /\ err)
    /\ UNCHANGED <<w_kind, w_started, w_appear, w_shown, w_enabled, w_cond, w_timeout, w_tried>>
    /\ UNCHANGED NotWait

\* PhotoProcessor._wait_for_element when self.driver has wait_for_element
W_PPDelegate ==
    /\ w_kind = "pp_dm" /\ w_result = "waiting"
    /\ \E err \in BOOLEAN :
       \E o \in {dm_wait_for_element(w_started, w_clock, w_timeout, w_cond, err)} :
          /\ w_result' = o.result
          /\ w_clock' = o.clock
          /\ w_error' = (w_started /\ err)
    /\ UNCHANGED <<w_kind, w_started, w_appear, w_shown, w_enabled, w_cond, w_timeout, w_tried>>
    /\ UNCHANGED NotWait

\* one turn of PhotoProcessor._wait_for_element's polling loop: whatever
\* find_element or is_displayed raises is swallowed, the condition argument is
\* not looked at
W_PPPoll ==
    /\ w_kind = "pp_poll" /\ w_result = "waiting"
    /\ IF w_clock < w_timeout * TicksPerSecond
       THEN \E err \in BOOLEAN :
               IF ~err /\ Ready(w_clock, "visibility")
               THEN w_result' = "element" /\ w_clock' = w_clock
               ELSE w_result' = w_result /\ w_clock' = w_clock + 1
       ELSE w_result' = "None" /\ w_clock' = w_clock
    /\ UNCHANGED <<w_kind, w_started, w_appear, w_shown, w_enabled, w_cond, w_timeout, w_tried, w_error>>
    /\ UNCHANGED NotWait

NextWait == W_MainAttempt \/ W_DMWait \/ W_PPDelegate \/ W_PPPoll

SpecWait == InitWait /\ [][NextWait]_vars

----------------------------------------------------------------------------
(* SpecFiles: geckodriver download and configuration files                 *)

JSON_PATH == "config.json"
YAML_PATH == "config.yaml"
BACKUP_PATH == "config.json.bak"
OTHER_PATH == "test_config.yaml"
DEST_DIR == "drivers"

\* os.path.join(dest_dir, 'geckodriver.exe')
exe_path(dest_dir) == IF dest_dir = DEST_DIR THEN "drivers/geckodriver.exe" ELSE dest_dir

Paths == {JSON_PATH, YAML_PATH, BACKUP_PATH, OTHER_PATH, exe_path(DEST_DIR)}

\* a file: its kind, the form of its text and, for a well-formed configuration,
\* the values it holds by key
File(kind, form, data) == [kind |-> kind, form |-> form, data |-> data]

Missing == File("missing", "none", << >>)

\* a configuration value: its type and its text
Val(t, v) == [t |-> t, v |-> v]

Keys == {"browser_type", "max_iterations"}

DEFAULT_CONFIG ==
    [k \in Keys |-> IF k = "browser_type" THEN Val("str", "firefox")
                    ELSE Val("int", "1000")]

\* f"{value}"
render(val) == val.v

\* how YAML reads a plain scalar: a truth word, a number, or a string
yaml_scalar(text) ==
    IF text \in {"True", "False"} THEN Val("bool", text)
    ELSE IF text \in {"5", "1000"} THEN Val("int", text)
    ELSE Val("str", text)

\* dict.get(key, default)
get(data, key, default) == IF key \in DOMAIN data THEN data[key] ELSE default

\* the file the f.write calls of migrate_json_to_yaml and create_default_config
\* leave: one line per key, "key: value  # comment"
yaml_written(config_data) ==
    File("yaml", "mapping",
         [k \in Keys |-> yaml_scalar(render(get(config_data, k, DEFAULT_CONFIG[k])))])

\* the file after the header comments alone were written
HeaderOnly == File("yaml", "header", << >>)

exists(files, path) == files[path] # Missing

Ret(tag, v) == [tag |-> tag, v |-> v]

\* what the file system can do to a call
IoOracles == {"ok", "write_fails", "rename_fails"}

\* what the network can do to a download
NetOracles == {"ok", "api_fails", "no_asset", "download_fails", "bad_zip"}

\* a migration that does not look for an existing config.yaml
migrate_json_to_yaml_overwriting(files, io) ==
    [ret |-> Ret("bool", "True"),
     files |-> [files EXCEPT ![YAML_PATH] = yaml_written(files[JSON_PATH].data),
                             ![BACKUP_PATH] = files[JSON_PATH],
                             ![JSON_PATH] = Missing]]

\* migrate_json_to_yaml: [ret, files]
migrate_json_to_yaml(files, io) ==
    IF ~exists(files, JSON_PATH) THEN [ret |-> Ret("bool", "False"), files |-> files]
    ELSE IF exists(files, YAML_PATH) THEN [ret |-> Ret("bool", "False"), files |-> files]
    ELSE IF files[JSON_PATH].form = "malformed"
         THEN [ret |-> Ret("bool", "False"), files |-> files]
    ELSE IF io = "write_fails" THEN [ret |-> Ret("bool", "False"), files |-> files]
    ELSE IF files[JSON_PATH].form # "object"
         THEN [ret |-> Ret("bool", "False"),
               files |-> [files EXCEPT ![YAML_PATH] = HeaderOnly]]
    ELSE LET converted == [files EXCEPT ![YAML_PATH] = yaml_written(files[JSON_PATH].data)]
         IN IF io = "rename_fails"
            THEN [ret |-> Ret("bool", "False"),
                  files |-> [converted EXCEPT ![BACKUP_PATH] = Missing]]
            ELSE [ret |-> Ret("bool", "True"),
                  files |-> [converted EXCEPT ![BACKUP_PATH] = files[JSON_PATH],
                                            ![JSON_PATH] = Missing]]

\* create_default_config: the files afterwards
create_default_config(files, path) ==
    [files EXCEPT ![path] = yaml_written(<< >>)]

\* yaml.safe_load of the file, and error_and_exit on a YAMLError
safe_load(file) ==
    IF file.form \in {"mapping", "object"} THEN Ret("config", file.data)
    ELSE IF file.form = "list" THEN Ret("list", << >>)
    ELSE IF file.form = "header" THEN Ret("None", << >>)
    ELSE Ret("exit", "1")

\* load_config: [ret, files]
load_config(files, path, io1, io2) ==
    LET migrated == migrate_json_to_yaml(files, io1).files
    IN IF ~exists(migrated, path)
       THEN IF io2 = "write_fails" THEN [ret |-> Ret("raise", "OSError"), files |-> migrated]
            ELSE LET created == create_default_config(migrated, path)
                 IN [ret |-> safe_load(created[path]), files |-> created]
       ELSE [ret |-> safe_load(migrated[path]), files |-> migrated]

\* a download that does not look for an existing geckodriver.exe
download_regardless(files, dest_dir, answer) ==
    [ret |-> Ret("path", exe_path(dest_dir)),
     files |-> [files EXCEPT ![exe_path(dest_dir)] = File("exe", "downloaded", << >>)],
     requests |-> <<"api", "asset">>]

\* download_latest_geckodriver, in main.py and in modules/geckodriver.py:
\* [ret, files, requests]
download_latest_geckodriver(files, dest_dir, answer) ==
    IF exists(files, exe_path(dest_dir))
    THEN [ret |-> Ret("path", exe_path(dest_dir)), files |-> files, requests |-> << >>]
    ELSE IF answer \in {"api_fails", "no_asset"}
         THEN [ret |-> Ret("exit", "1"), files |-> files, requests |-> <<"api">>]
    ELSE IF answer \in {"download_fails", "bad_zip"}
         THEN [ret |-> Ret("exit", "1"), files |-> files, requests |-> <<"api", "asset">>]
    ELSE [ret |-> Ret("path", exe_path(dest_dir)),
          files |-> [files EXCEPT ![exe_path(dest_dir)] = File("exe", "downloaded", << >>)],
          requests |-> <<"api", "asset">>]

\* the calls of one session on the files
MaxCalls == 3

\* the JSON and YAML documents a configuration file may hold at the start
JsonFiles ==
    {File("json", "object", << >>),
     File("json", "object", [k \in {"browser_type"} |-> Val("str", "chrome")]),
     File("json", "object", [k \in {"max_iterations"} |-> Val("str", "5")]),
     File("json", "list", << >>),
     File("json", "malformed", << >>)}

YamlFiles ==
    {File("yaml", "mapping",
          [k \in Keys |-> IF k = "browser_type" THEN Val("str", "chrome") ELSE Val("int", "5")]),
     File("yaml", "mapping", [k \in {"key"} |-> Val("str", "value")]),
     File("yaml", "malformed", << >>)}

InitialFiles ==
    {f \in [Paths -> {Missing} \cup JsonFiles \cup YamlFiles
                        \cup {File("exe", "dummy", << >>)}] :
        /\ f[JSON_PATH] \in {Missing} \cup JsonFiles
        /\ f[YAML_PATH] \in {Missing} \cup YamlFiles
        /\ f[BACKUP_PATH] \in {Missing, File("json", "object", << >>)}
        /\ f[OTHER_PATH] \in {Missing, File("yaml", "mapping", [k \in {"key"} |-> Val("str", "value")])}
        /\ f[exe_path(DEST_DIR)] \in {Missing, File("exe", "dummy", << >>)}}

NotFiles == <<extractVars, reconcileVars, loopVars, waitVars>>

InitFiles ==
    /\ IdleExtract
    /\ IdleReconcile
    /\ IdleLoop
    /\ IdleWait
    /\ fs \in InitialFiles
    /\ net = 0
    /\ f_op = "none"
    /\ f_arg = "none"
    /\ f_io = "none"
    /\ f_ret = Ret("none", "none")
    /\ f_prev = fs
    /\ f_net0 = 0

F_Download ==
    /\ net < 2 * MaxCalls
    /\ \E answer \in NetOracles :
       \E o \in {download_latest_geckodriver(fs, DEST_DIR, answer)} :
          /\ fs' = o.files
          /\ net' = net + Len(o.requests)
          /\ f_ret' = o.ret
          /\ f_io' = answer
    /\ f_op' = "download_latest_geckodriver"
    /\ f_arg' = DEST_DIR
    /\ f_prev' = fs
    /\ f_net0' = net
    /\ UNCHANGED NotFiles

F_LoadConfig ==
    /\ \E path \in {YAML_PATH, OTHER_PATH} : \E io1 \in IoOracles : \E io2 \in {"ok", "write_fails"} :
       \E o \in {load_config(fs, path, io1, io2)} :
          /\ fs' = o.files
          /\ f_ret' = o.ret
          /\ f_arg' = path
          /\ f_io' = IF io1 = "ok" THEN io2 ELSE io1
    /\ f_op' = "load_config"
    /\ f_prev' = fs
    /\ f_net0' = net
    /\ UNCHANGED net
    /\ UNCHANGED NotFiles

F_Migrate ==
    /\ \E io \in IoOracles :
       \E o \in {migrate_json_to_yaml(fs, io)} :
          /\ fs' = o.files
          /\ f_ret' = o.ret
          /\ f_io' = io
    /\ f_op' = "migrate_json_to_yaml"
    /\ f_arg' = "none"
    /\ f_prev' = fs
    /\ f_net0' = net
    /\ UNCHANGED net
    /\ UNCHANGED NotFiles

NextFiles == F_Download \/ F_LoadConfig \/ F_Migrate

SpecFiles == InitFiles /\ [][NextFiles]_vars

----------------------------------------------------------------------------
(* Properties of the extractors (SpecExtract)                              *)

\* the parts of a time text: half marker, hour digits, minute digits
HourMarkAt(t) == CHOOSE i \in 1..Len(t) : t[i] = HOUR_MARK[1]
TimeHalf(t) == SubSeq(t, 1, 2)
HourText(t) == SubSeq(t, 3, HourMarkAt(t) - 1)
MinuteText(t) == SubSeq(t, HourMarkAt(t) + 1, Len(t) - 1)

C7_Fact(out) ==
    (out # Pending /\ inp.shape \in MatchingShapes /\ inp.h <= 23) =>
        /\ out[1] = inp.date
        /\ TimeHalf(out[2]) = (IF inp.h < 12 THEN AM_MARK ELSE PM_MARK)
        /\ MinuteText(out[2]) = str(inp.m)
        /\ out[2][Len(out[2])] = MINUTE_MARK[1]
        /\ (inp.h \notin {0, 12} => HourText(out[2]) = str(inp.h % 12))

\* C7: for a filename that contains the pattern with hour h in 0..23 and minute
\* m, both extractors return the filename's date, the morning half iff h < 12,
\* the minute unpadded and, for h outside {0, 12}, the displayed hour h mod 12.
C7_ExtractMatchesFilename == C7_Fact(mainOut) /\ C7_Fact(ppOut)

C7_Witness ==
    /\ inp = [shape |-> "plain", date |-> DATE_2024_03_25, h |-> 14, m |-> 5]
    /\ mainOut = <<DATE_2024_03_25, <<"u5348", "u5F8C", "2", "u6642", "5", "u5206">> >>
    /\ ppOut = mainOut

C8_Fact(out) ==
    (out # Pending /\ inp.shape \in MatchingShapes /\ inp.h = 0) =>
        /\ TimeHalf(out[2]) = AM_MARK
        /\ HourText(out[2]) = <<"0">>
        /\ MinuteText(out[2]) = str(inp.m)

\* C8: for a filename with hour 00 and minute m both extractors return the
\* morning half, the displayed hour 0 and the minute m.
C8_MidnightIsHourZero == C8_Fact(mainOut) /\ C8_Fact(ppOut)

C9_Fact(out) ==
    (out # Pending /\ inp.shape \in OtherShapes) => out = <<None, None>>

\* C9: for a filename that does not contain the pattern both extractors return
\* the pair (None, None).
C9_NoMatchGivesNone == C9_Fact(mainOut) /\ C9_Fact(ppOut)

C9_Witness ==
    /\ inp.shape = "screenshot"
    /\ mainOut = <<None, None>>
    /\ ppOut = <<None, None>>

C28_Fact(out) ==
    (out # Pending /\ out # <<None, None>>) =>
        /\ int(HourText(out[2])) \in 0..12
        /\ int(MinuteText(out[2])) \in 0..59
        /\ inp.h <= 23 /\ inp.m <= 59

\* C28: every fact an extractor returns has a displayed hour within 0..12 and
\* a minute within 0..59, whatever two digits the filename holds in the hour
\* and minute places; a filename whose hour is above 23 or whose minute is
\* above 59 yields no fact.
C28_FactInRange == C28_Fact(mainOut) /\ C28_Fact(ppOut)

----------------------------------------------------------------------------
(* Properties of the readiness waiters (SpecWait)                          *)

WaitDone == w_result \in {"element", "None", "raise"}

\* the tick at which the k-th attempt of the schedule 1, 2, 3, 5, 10 is over
RECURSIVE Deadline(_)
Deadline(k) ==
    IF k = 0 THEN 0 ELSE Deadline(k - 1) + <<1, 2, 3, 5, 10>>[k] * TicksPerSecond

\* C11: main.wait_for_element makes its attempts in the order 1, 2, 3, 5, 10
\* seconds and never more than five; it returns the element at the first attempt
\* within which the element is there, goes on only after a timeout, and returns
\* None after the fifth timeout.
C11_EscalatingSchedule ==
    w_kind = "main" =>
        /\ Len(w_tried) <= 5
        /\ w_tried = SubSeq(<<1, 2, 3, 5, 10>>, 1, Len(w_tried))
        /\ (w_result = "element" =>
               /\ w_appear <= Deadline(Len(w_tried))
               /\ Len(w_tried) > 1 => w_appear > Deadline(Len(w_tried) - 1))
        /\ (w_result = "waiting" /\ Len(w_tried) >= 1 => w_appear > Deadline(Len(w_tried)))
        /\ (w_result = "None" => Len(w_tried) = 5 /\ w_appear > Deadline(5))

C11_Witness ==
    /\ w_kind = "main" /\ w_result = "element"
    /\ w_tried = <<1, 2, 3>>
    /\ w_clock = w_appear

\* the element does not satisfy the waiter's condition within the time it waits
TimedOut ==
    CASE w_kind = "main" -> w_appear > Deadline(5)
      [] w_kind = "pp_poll" -> w_appear > w_timeout * TicksPerSecond \/ ~w_shown
      [] OTHER -> w_appear > w_timeout * TicksPerSecond
                     \/ (w_cond = "visibility" /\ ~w_shown)
                     \/ (w_cond = "clickable" /\ ~(w_shown /\ w_enabled))

\* C12: every waiter returns None when its wait runs out and raises only when
\* the driver raised something else than a timeout; DriverManager's waiter
\* returns None without a driver call when no browser was started.
C12_TimeoutIsNone ==
    /\ w_result = "raise" => w_error
    /\ (WaitDone /\ ~w_error /\ TimedOut) => w_result = "None"
    /\ (WaitDone /\ w_kind \in {"dm", "pp_dm"} /\ ~w_started) =>
           w_result = "None" /\ ~w_error /\ w_clock = 0

C12_Witness ==
    /\ w_kind = "dm" /\ w_started /\ ~w_error
    /\ w_appear > w_timeout * TicksPerSecond
    /\ w_result = "None"
    /\ w_clock = w_timeout * TicksPerSecond

\* C29: on both paths of PhotoProcessor._wait_for_element (the wait handed
\* to DriverManager and the polling loop) an element is returned only if the
\* condition asked for (presence, visibility, clickability) holds when the
\* waiter returns, and with a timeout of 0 the waiter returns None.
C29_ConditionHoldsAtReturn ==
    w_kind \in {"pp_dm", "pp_poll"} =>
        /\ w_result = "element" => Ready(w_clock, w_cond)
        /\ (WaitDone /\ ~w_error /\ w_timeout <= 0) => w_result = "None"

----------------------------------------------------------------------------
(* Properties of the file operations (SpecFiles)                           *)

C16_LoadConfigFrame ==
    f_op = "load_config" =>
        /\ f_prev[f_arg].form = "mapping" =>
              /\ f_ret.tag = "config" /\ f_ret.v = f_prev[f_arg].data
              /\ fs[f_arg] = f_prev[f_arg]
        /\ (~exists(f_prev, f_arg) /\ f_io = "ok") =>
              /\ fs[f_arg] = yaml_written(<< >>)
              /\ f_ret.tag = "config" /\ f_ret.v = DEFAULT_CONFIG
        /\ f_arg # YAML_PATH =>
              \A p \in {JSON_PATH, YAML_PATH, BACKUP_PATH} : fs[p] = f_prev[p]

\* C17: migrate_json_to_yaml returns True only when config.json was there and
\* config.yaml was not, and then config.yaml exists, config.json is gone and
\* config.json.bak holds what config.json held; it does so whenever config.json
\* holds an object and no file operation fails.  With config.yaml there, or
\* config.json missing or not holding an object, it returns False, leaves
\* config.json alone and does not overwrite config.yaml; without config.json,
\* as after a migration, it changes nothing.
C17_MigrateOnce ==
    f_op = "migrate_json_to_yaml" =>
        LET hadJson == exists(f_prev, JSON_PATH)
            hadYaml == exists(f_prev, YAML_PATH)
            bad == f_prev[JSON_PATH].form # "object"
        IN /\ f_ret.tag = "bool"
           /\ f_ret.v = "True" =>
                 /\ hadJson /\ ~hadYaml
                 /\ fs[YAML_PATH].form = "mapping"
                 /\ ~exists(fs, JSON_PATH)
                 /\ fs[BACKUP_PATH] = f_prev[JSON_PATH]
           /\ (hadJson /\ ~hadYaml /\ ~bad /\ f_io = "ok") => f_ret.v = "True"
           /\ (hadYaml \/ ~hadJson \/ bad) =>
                 /\ f_ret.v = "False"
                 /\ fs[JSON_PATH] = f_prev[JSON_PATH]
                 /\ hadYaml => fs[YAML_PATH] = f_prev[YAML_PATH]
           /\ ~hadJson => fs = f_prev

C17_Witness ==
    /\ f_op = "migrate_json_to_yaml"
    /\ f_ret = Ret("bool", "True")
    /\ exists(f_prev, BACKUP_PATH)
    /\ fs[BACKUP_PATH] = f_prev[JSON_PATH]
    /\ fs[BACKUP_PATH] # f_prev[BACKUP_PATH]
    /\ fs[YAML_PATH].data["max_iterations"] = Val("int", "5")

----------------------------------------------------------------------------
(* Properties of one item's reconciliation (SpecReconcile)                 *)

Falsy(result) == result \in {"False", "None"}

\* no acting call of the write path: no click but the one on the info button,
\* no clear, no key sent, no blur (the lookup of an element acts on nothing)
NoWriteStep(log) ==
    \A k \in 1..Len(log) : log[k] = Ev("click", "info", << >>) \/ log[k].op = "find"

\* the record holds exactly the fact this extractor output
HoldsFact(rec, fact) == fact[1] # None /\ rec = Stored(fact[1], fact[2], "ja")

OwnFact(g, file) ==
    IF g = "main" THEN main_extract_date_and_time_from_filename(file)
    ELSE pp_extract_date_and_time_from_filename(file)

\* C1: a run on an item whose stored date and time equal the ones extracted
\* from its filename returns a falsy value, makes no write-path call and leaves
\* the record as it was, so the same holds for the next run.
C1_Idempotent ==
    (r_result # NotRun /\ HoldsFact(r_prev, OwnFact(r_gen, r_file))) =>
        /\ Falsy(r_result)
        /\ NoWriteStep(r_log)
        /\ r_rec = r_prev

C1_Witness ==
    /\ r_gen = "pp"
    /\ r_result = "False"
    /\ HoldsFact(r_prev, OwnFact(r_gen, r_file))
    /\ r_log = <<Ev("click", "info", << >>)>>
    /\ r_rec = r_prev

FileHour(file) == int(groups(file, re_search(filename_pattern, file))[4])

\* C10: PhotoProcessor.set_shooting_date leaves alone an item whose record is
\* the fact main.extract_date_and_time_from_filename derives from its filename,
\* for every hour 0..23.
C10_LegacyRecordUntouched ==
    (/\ r_gen = "pp"
     /\ r_result # NotRun
     /\ HoldsFact(r_prev, main_extract_date_and_time_from_filename(r_file))
     /\ FileHour(r_file) <= 23) =>
        /\ Falsy(r_result)
        /\ NoWriteStep(r_log)

\* the page shows a stored date whose label text the date pattern does not match
ParseFails(rec) == rec.present /\ date_search(date_label_text(rec)) = None

\* C13: when the edit button is there but the date label does not match the
\* pattern, the reader's result differs from the one for an item without a
\* date, the run returns False and no step of the write path is made.
C13_ParseFailureIsNotAbsence ==
    (r_gen = "pp" /\ r_result # NotRun /\ ParseFails(r_prev)) =>
        /\ pp_is_date_already_set(r_prev, {}) # pp_is_date_already_set(Absent, {})
        /\ r_result = "False"
        /\ NoWriteStep(r_log)

\* the page shows a stored date that reads well and is not this fact
Differs(rec, fact) ==
    /\ rec.present
    /\ date_search(date_label_text(rec)) # None
    /\ fact[1] # None
    /\ rec # Stored(fact[1], fact[2], rec.locale)

\* the steps of the field-fill and save part of a run
FillStep(e) == e.op \in {"find", "clear", "send_keys", "blur"} \/ (e.op = "click" /\ e.el = "save")

\* a click on this button comes before every fill or save step of the log
ClickedFirst(log, el) ==
    \E i \in 1..Len(log) :
        /\ log[i] = Ev("click", el, << >>)
        /\ \A j \in 1..Len(log) : FillStep(log[j]) => i < j

\* C22: a run, with a faithful driver, on an item whose stored date differs
\* from the fact of its filename clicks the edit button, then fills the
\* fields and saves as for a new date, and returns True; this for
\* PhotoProcessor.set_shooting_date and for main.set_shooting_date.
C22_EditWhenDiffers ==
    (r_result # NotRun /\ r_faults = {} /\ Differs(r_prev, OwnFact(r_gen, r_file))) =>
        /\ ClickedFirst(r_log, "edit")
        /\ HasSave(r_log)
        /\ r_result = "True"
        /\ r_rec = Stored(OwnFact(r_gen, r_file)[1], OwnFact(r_gen, r_file)[2], r_prev.locale)

\* C23: when the info button is not found and the driver is faithful
\* otherwise, the run does not fail the item for it: an item without a date
\* whose filename holds a fact is written as it is with the button, in both
\* generations.
C23_InfoPanelOptional ==
    (/\ r_result # NotRun
     /\ r_faults = {"info_timeout"}
     /\ r_prev = Absent
     /\ OwnFact(r_gen, r_file)[1] # None) =>
        /\ r_result = "True"
        /\ HasSave(r_log)
        /\ HoldsFact(r_rec, OwnFact(r_gen, r_file))

\* the filename label is not there, or its text holds no match of the pattern
NoFact(g, file, F) ==
    \/ "file_timeout" \in F
    \/ OwnFact(g, strip(file)) = <<None, None>>

\* C24: a run in which the filename label is missing, or in which its text
\* does not match the filename pattern, returns False, clicks neither the add
\* nor the edit button, types into no field, clicks no save button and
\* leaves the record as it was.
C24_NoFactNoWrite ==
    (r_result # NotRun /\ NoFact(r_gen, r_file, r_faults)) =>
        /\ r_result = "False"
        /\ NoWriteStep(r_log)
        /\ r_rec = r_prev

\* PhotoProcessor on an item without a date whose file label never came
C24_Witness ==
    /\ r_gen = "pp"
    /\ r_faults = {"file_timeout"}
    /\ r_prev = Absent
    /\ OwnFact(r_gen, strip(r_file)) # <<None, None>>
    /\ r_result = "False"
    /\ r_log = <<Ev("click", "info", << >>)>>

\* a key was sent to a field of the dialog, or a field was cleared
HasInput(log) == \E k \in 1..Len(log) : log[k].op \in {"clear", "send_keys"}

\* C25: on an item without a stored date a run reaches the field-fill step
\* (the lookup of the year field and all that follows) only after it clicked
\* the add button; when the button cannot be had, or the element found is
\* not the add button, the run returns a falsy value with no input into a
\* field and no click on the save button.
C25_AddButtonFirst ==
    (r_result # NotRun /\ r_prev = Absent) =>
        /\ (\E k \in 1..Len(r_log) : FillStep(r_log[k])) => ClickedFirst(r_log, "add")
        /\ (r_faults \cap {"add_other", "open_error"} # {}) =>
              (Falsy(r_result) /\ ~HasInput(r_log) /\ ~HasSave(r_log))

\* where the save button was clicked
SaveAt(log) == CHOOSE k \in 1..Len(log) : log[k] = Ev("click", "save", << >>)

\* what the fact puts in each field of the dialog
FieldText(fact, el) ==
    CASE el = "year" -> split_date(fact[1])[1]
      [] el = "month" -> split_date(fact[1])[2]
      [] el = "day" -> split_date(fact[1])[3]
      [] OTHER -> fact[2]

\* before the save click the field was cleared, then this text and no other
\* was typed into it
ClearedThenTyped(log, el, text) ==
    \E i, j \in 1..SaveAt(log) :
        /\ i < j
        /\ log[i] = Ev("clear", el, << >>)
        /\ log[j] = Ev("send_keys", el, text)
        /\ \A k \in 1..Len(log) : (log[k].op = "send_keys" /\ log[k].el = el) => k = j

\* the time field lost the focus after its text was typed and before the save
BlurredBeforeSave(log) ==
    \E j, b \in 1..SaveAt(log) :
        /\ j < b
        /\ log[j].op = "send_keys" /\ log[j].el = "time"
        /\ log[b] = Ev("blur", "time", << >>)

\* C26: in every run that clicks the save button, each of the year, month,
\* day and time fields was cleared before its value was typed, the values
\* typed are those of the fact of the filename, and the time field was
\* blurred after the typing and before the save click.
C26_FillOrder ==
    (r_result # NotRun /\ HasSave(r_log)) =>
        /\ \A el \in {"year", "month", "day", "time"} :
              ClearedThenTyped(r_log, el, FieldText(OwnFact(r_gen, strip(r_file)), el))
        /\ BlurredBeforeSave(r_log)

\* C27: a run returns True exactly when it found the save button and the
\* click on it completed; when the save button does not come after the
\* fields were filled, or the click raises, the run returns a falsy value
\* (False or None), which the pass counts as no change.
C27_TrueIffSaved ==
    (r_result # NotRun) =>
        /\ (r_result = "True") <=> HasSave(r_log)
        /\ (r_faults \cap {"save_timeout", "save_click_error"} # {}) => Falsy(r_result)
        /\ r_result \in {"True", "False", "None"}

\* main.set_shooting_date typed the four fields, the save button never
\* came, and the function fell off its end
C27_Witness ==
    /\ r_gen = "main"
    /\ r_faults = {"save_timeout"}
    /\ HasInput(r_log)
    /\ ~HasSave(r_log)
    /\ r_result = "None"

----------------------------------------------------------------------------
(* Properties of the run (Spec)                                            *)

PassEnd == pc \in {"m_pass_end", "p_pass_end"}

\* every photo has a link, a filename with the pattern and no stored date
AllNeedWrite ==
    /\ Len(names) >= 1
    /\ \A k \in 1..Len(names) :
          hrefs[k] /\ recs0[k] = Absent /\ OwnFact(gen, names[k]) # <<None, None>>

\* C2: with N >= 1 photos that all need a write, and a driver that answers
\* faithfully, pass 1 saves every photo once and reports a change, pass 2 saves
\* nothing and reports none, no third pass starts and the run ends normally.
C2_TwoPasses ==
    (landing = "photos" /\ AllNeedWrite /\ ~glitch) =>
        /\ passes <= 2
        /\ (PassEnd /\ passes = 1 => changed /\ \A k \in 1..Len(names) : written[k] = 1)
        /\ (PassEnd /\ passes = 2 => ~changed /\ \A k \in 1..Len(names) : written[k] = 0)
        /\ (exit # "running" => passes = 2 /\ exit = "0")

C2_Witness ==
    /\ gen = "pp" /\ landing = "photos" /\ AllNeedWrite /\ ~glitch
    /\ Len(names) >= 2
    /\ exit = "0" /\ passes = 2 /\ ~changed
    /\ \A k \in 1..Len(names) : HoldsFact(recs[k], OwnFact(gen, names[k]))

\* C3: the run never starts more than max_iterations passes.
C3_PassesBounded == passes <= MaxIterations

\* C4: no error raised while one photo is handled leaves the pass.
C4_NoErrorLeavesPass == ~escaped

\* C5: when the process has ended, the session was released exactly once.
C5_SessionReleasedOnce == exit # "running" => quits = 1

\* C6: when the browser lands on the sign-in page, the run ends with status 1
\* and before that enumerates nothing, opens no detail page and writes nothing.
C6_SigninAborts ==
    landing = "signin" =>
        /\ ~enumerated /\ passes = 0
        /\ Len(windows) <= 1
        /\ recs = recs0
        /\ \A k \in 1..Len(names) : written[k] = 0
        /\ (exit # "running" => exit = "1")

C6_Witness ==
    /\ gen = "main" /\ landing = "signin" /\ Len(names) >= 1
    /\ pc = "done" /\ exit = "1" /\ ~enumerated

\* the stored date of photo k is the one PhotoProcessor derives from its filename
Correct(k) == HoldsFact(recs[k], OwnFact("pp", names[k]))

\* C14: when process_photos returns False (the pass ends with all_processed
\* still True), every photo of the list whose filename has the pattern holds
\* the date and time derived from that filename.
C14_FalseMeansAllCorrect ==
    (gen = "pp" /\ pc = "p_pass_end" /\ ~changed) =>
        \A k \in 1..Len(names) :
           OwnFact("pp", names[k]) # <<None, None>> => Correct(k)

\* the pass is between two items, or past the last one
BetweenItems == pc \in {"m_href", "p_href", "m_pass_end", "p_pass_end"}

\* C18: at most one detail window is open at any time; while set_shooting_date
\* runs for link idx the driver is switched to the window opened for it; between
\* two items only the collection window is open and the driver is switched to it.
C18_OneItemAtATime ==
    /\ Len(windows) <= 2
    /\ pc \in {"m_run", "p_run"} => Len(windows) = 2 /\ Page = idx
    /\ BetweenItems => windows = <<0>> /\ current = 1

\* the links the first pass has dealt with so far
Handled == IF PassEnd THEN 1..Len(names) ELSE 1..(idx - 1)

\* C19: as long as every link handled so far was one without an href, and the
\* driver answered faithfully, no window was opened and none was closed: the
\* collection window is the only one and the driver is switched to it.
C19_SkipTouchesNoWindow ==
    (/\ landing = "photos" /\ ~glitch /\ passes = 1 /\ BetweenItems
     /\ \A k \in Handled : ~hrefs[k]) =>
        windows = <<0>> /\ current = 1

\* C20: a pass of process_photos in which a driver call raised while an item
\* was handled ends with all_processed False, so that process_photos returns
\* True.
C20_TransientErrorCounts ==
    (gen = "pp" /\ pc = "p_pass_end" /\ transient) => changed

\* C21: the run refreshes the collection exactly once between two passes and
\* at no other time: a pass starts only when every earlier pass was followed
\* by one refresh; a refresh follows only a pass in which an item changed; a
\* pass without a change (or over an empty collection) ends the run without
\* a refresh; a pass with a change, below the pass limit, is followed by the
\* refresh and the next enumeration.
C21_RefreshBetweenPasses ==
    [][ /\ (passes' = passes + 1) => (refreshes = passes /\ refreshes' = refreshes)
        /\ (refreshes' # refreshes) =>
              (PassEnd /\ changed /\ refreshes' = refreshes + 1 /\ refreshes' = passes)
        /\ (PassEnd /\ ~changed) => (refreshes' = refreshes /\ pc' \in {"m_quit", "p_quit"})
        /\ (PassEnd /\ changed /\ (gen = "main" \/ passes < MaxIterations)) =>
              (refreshes' = refreshes + 1 /\ pc' \in {"m_enum", "p_enum"})
        /\ (pc = "m_enum" /\ Len(names) = 0) => (pc' = "m_quit" /\ refreshes' = refreshes)
      ]_vars

\* the second pass of main.py changed nothing and the run left the loop after
\* the one refresh that followed the first pass
C21_Witness ==
    gen = "main" /\ pc = "m_quit" /\ passes = 2 /\ refreshes = 1 /\ ~changed

============================================================================
